---- MODULE Spec2Model ----
(***************************************************************************)
(* A model of the orchestration core of zarr_etl_tools:                    *)
(*   - DatasetManager (zarr_etl_tools/dataset_manager.py): construction,   *)
(*     populate_metadata, get_dataset_manager_from_name and run_etl;       *)
(*   - the store interfaces Local, S3 and IPLD (zarr_etl_tools/utils/      *)
(*     store.py).                                                          *)
(*                                                                         *)
(* Python strings that the code inspects or builds (names, keys, bucket    *)
(* names, urls, paths) are sequences of one-character strings, so that     *)
(* "gfs" in name, f-strings and joinpath are computed, not assumed.        *)
(* Python's None is NoneV where a string is expected.                      *)
(***************************************************************************)
EXTENDS Integers, Sequences, FiniteSets, TLC

VARIABLES
    registry,        \* class -> [name, json_key]: what name() and json_key() return
    selfCls,         \* the class of the object get_dataset_manager_from_name is called on
    argv,            \* the command line the process was started with
    args,            \* the arguments of the call under way
    pc,              \* position in the operation under way
    dataset_class,   \* run_etl's local dataset_class / the resolver's return value
    manager,         \* the DatasetManager instance (NoManager before construction)
    trigger_parse,   \* run_etl's local trigger_parse
    update_ret,      \* what update_local_input did: "not_called", "true", "false", "raised"
    phase_ret,       \* what the lifecycle method invoked last did, "none" before any
    calls,           \* the lifecycle methods invoked on the manager, in order
    outcome,         \* "running", "returned" or the exception that left the operation
    io,              \* network and filesystem calls made so far, in order
    files,           \* the paths and urls that exist on the local disk and on S3
    env,             \* the credential variables set in os.environ
    fsMade,          \* number of filesystem handles created so far
    mappersMade,     \* number of mapper objects created so far
    writes,          \* number of completed writes through the store's mapper
    result,          \* the last store operation, its options and what it returned
    published,       \* the hash under the dataset's published pointer, NoneV if none
    hashCalls,       \* number of latest_hash() calls the last store operation made
    metadata,        \* the manager's metadata attribute
    static_metadata, \* what self.static_metadata evaluates to
    once,            \* metadata as the first of a run of populate_metadata calls left it
    popCalls         \* length of the current run of populate_metadata calls

regVars == <<registry, selfCls, argv>>
etlVars == <<dataset_class, trigger_parse, update_ret, phase_ret, calls>>
storeVars == <<files, env, fsMade, mappersMade, writes, result, published, hashCalls>>
metaVars == <<metadata, static_metadata, once, popCalls>>

vars == <<regVars, args, pc, manager, outcome, io, etlVars, storeVars, metaVars>>

----------------------------------------------------------------------------
(* Strings *)

NoneV == <<"<None>">>

\* Python's `sub in s` for strings
Contains(sub, s) ==
    \E i \in 1..(Len(s) - Len(sub) + 1) : SubSeq(s, i, i + Len(sub) - 1) = sub

\* Python's truth value of an optional string: None and "" are false
Truthy(s) == s # NoneV /\ s # <<>>

GFS == <<"g", "f", "s">>

----------------------------------------------------------------------------
(* The subclass tree and get_dataset_manager_from_name *)

\* Number of classes below the root of the tree (class 0)
NumClasses == 4

Classes == 0..NumClasses

\* The return value None of get_dataset_manager_from_name
NoClass == -1

\* The base class of class c > 0; classes are defined in the order of their numbers
BaseClass(c) == (c - 1) \div 2

\* cls.__subclasses__(): the direct subclasses, in definition order
DirectSubclasses(cls) ==
    LET kids == {k \in 1..NumClasses : BaseClass(k) = cls}
        Nth[i \in 1..Cardinality(kids)] ==
            CHOOSE k \in kids : Cardinality({j \in kids : j < k}) = i - 1
    IN  [i \in 1..Cardinality(kids) |-> Nth[i]]

RECURSIVE GetSubclasses(_)
RECURSIVE GetSubclassesFrom(_, _)

\* the body of the for loop of get_subclasses, from the i-th subclass on
GetSubclassesFrom(subs, i) ==
    IF i > Len(subs) THEN <<>>
    ELSE GetSubclasses(subs[i]) \o <<subs[i]>> \o GetSubclassesFrom(subs, i + 1)

\* The generator get_subclasses as the sequence it yields
GetSubclasses(cls) == GetSubclassesFrom(DirectSubclasses(cls), 1)

\* Mutant: the special handling of GFS is missing
SourceMatchesByName(reg, source, name) == reg[source].name = name

\* The test of the loop of get_dataset_manager_from_name on one candidate
SourceMatches(reg, source, name) ==
    IF Contains(GFS, name)
    THEN reg[source].json_key = name
    ELSE reg[source].name = name

GetDatasetManagerFromName(reg, cls, name) ==
    LET sources == GetSubclasses(cls)
        hits == {i \in 1..Len(sources) : SourceMatches(reg, sources[i], name)}
    IN  IF hits = {} THEN NoClass
        ELSE sources[CHOOSE i \in hits : \A j \in hits : i <= j]

----------------------------------------------------------------------------
(* Construction: the store interfaces and DatasetManager.__init__ *)

NoManager == [constructed |-> FALSE]

\* hasattr(self, "_fs") / hasattr(self, "_mapper") is false
NoAttr == [id |-> 0]

\* StoreInterface.__init__: the object keeps its dataset manager and nothing else;
\* _fs and _mapper are attributes only once fs() and mapper() have set them
StoreInterfaceInit(type) ==
    [type |-> type, bucket |-> NoneV, fs |-> NoAttr, mapper |-> NoAttr]

\* S3.__init__
S3Init(bucket) ==
    IF ~Truthy(bucket)
    THEN [raised |-> "ValueError", store |-> StoreInterfaceInit("S3")]
    ELSE [raised |-> "none",
          store |-> [StoreInterfaceInit("S3") EXCEPT !.bucket = bucket]]

\* Mutant: an unknown store string falls back to the local store
MakeStoreFallback(store, s3_bucket_name) ==
    IF store = "ipld"
    THEN [raised |-> "none", store |-> StoreInterfaceInit("IPLD")]
    ELSE IF store = "s3"
    THEN S3Init(s3_bucket_name)
    ELSE [raised |-> "none", store |-> StoreInterfaceInit("Local")]

\* The if/elif chain of DatasetManager.__init__ that creates the store object
MakeStore(store, s3_bucket_name) ==
    IF store = "<None>" \/ store = "local"
    THEN [raised |-> "none", store |-> StoreInterfaceInit("Local")]
    ELSE IF store = "ipld"
    THEN [raised |-> "none", store |-> StoreInterfaceInit("IPLD")]
    ELSE IF store = "s3"
    THEN S3Init(s3_bucket_name)
    ELSE [raised |-> "ValueError", store |-> StoreInterfaceInit("none")]

\* Mutant: the flag is stored as passed
OverwriteAllowedAsPassed(allow_overwrite, store) == allow_overwrite

\* self.overwrite_allowed = allow_overwrite or isinstance(self.store, IPLD)
OverwriteAllowed(allow_overwrite, store) ==
    allow_overwrite \/ store.type = "IPLD"

\* DatasetManager.__init__ for an instance of class cls with keyword arguments kw.
\* No statement of it, nor of the store constructors, touches the network or the
\* filesystem: the result carries no I/O.
DatasetManagerInit(cls, kw) ==
    LET made == MakeStore(kw.store, kw.s3_bucket_name)
    IN  IF made.raised # "none"
        THEN [raised |-> made.raised, manager |-> NoManager]
        ELSE [raised |-> "none",
              manager |->
                [constructed |-> TRUE,
                 cls |-> cls,
                 new_files |-> <<>>,
                 custom_output_path |-> kw.custom_output_path,
                 custom_latest_hash |-> kw.custom_latest_hash,
                 rebuild_requested |-> kw.rebuild_requested,
                 requested_ipfs_chunker |-> kw.requested_ipfs_chunker,
                 store |-> made.store,
                 overwrite_allowed |-> OverwriteAllowed(kw.allow_overwrite, made.store)]]

StoreArgs == {"<None>", "local", "ipld", "s3", "ftp"}

BucketArgs == {NoneV, <<>>, <<"b">>, <<"b", "2">>}

OutputPathArgs == {NoneV, <<"o">>}

LatestHashArgs == {NoneV, <<"Q">>}

ChunkerArgs == {NoneV, <<"s">>}

\* The process was not started from a command line
NoArgv == [script |-> FALSE]

----------------------------------------------------------------------------
(* run_etl *)

ERA == <<"e", "r", "a">>
CPC == <<"c", "p", "c">>
GFSX == <<"g", "f", "s", "x">>
XGFS == <<"x", "g", "f", "s">>
NOPE == <<"n", "o">>

\* What name() and json_key() of a class may return
ClassAttrs ==
    <<[name |-> ERA, json_key |-> CPC],
      [name |-> GFS, json_key |-> GFSX],
      [name |-> GFSX, json_key |-> ERA],
      [name |-> CPC, json_key |-> XGFS]>>

DatasetNames == {ERA, CPC, GFS, GFSX, XGFS, NOPE}

\* The classes defined in the process that runs run_etl
DefaultRegistry == [c \in Classes |-> ClassAttrs[(c % Len(ClassAttrs)) + 1]]

RunEtlArgs ==
    [dataset_name : {ERA, GFSX, NOPE},
     store : StoreArgs,
     s3_bucket_name : {NoneV, <<>>, <<"b">>},
     rebuild : BOOLEAN,
     only_parse : BOOLEAN,
     only_update_input : BOOLEAN,
     only_prepare_input : BOOLEAN,
     only_metadata : BOOLEAN,
     custom_output_path : OutputPathArgs,
     custom_latest_hash : LatestHashArgs]

\* The keyword arguments run_etl passes to dataset_class(...), as
\* DatasetManager.__init__ receives them: `rebuild` is no parameter of it and
\* lands in **kwargs, so rebuild_requested and allow_overwrite keep their defaults
RunEtlConstructorArgs(a) ==
    [store |-> a.store,
     s3_bucket_name |-> a.s3_bucket_name,
     custom_output_path |-> a.custom_output_path,
     custom_latest_hash |-> a.custom_latest_hash,
     rebuild_requested |-> FALSE,
     requested_ipfs_chunker |-> NoneV,
     allow_overwrite |-> FALSE]

Raise(exc) == outcome' = exc /\ pc' = "done"

\* dataset_class = self.get_dataset_manager_from_name(dataset_name)
RunEtlResolve ==
    /\ pc = "resolve"
    /\ dataset_class' = GetDatasetManagerFromName(registry, selfCls, args.dataset_name)
    /\ pc' = "construct"
    /\ UNCHANGED <<regVars, args, manager, trigger_parse, update_ret, phase_ret,
                   calls, outcome, io, storeVars, metaVars>>

\* manager = dataset_class(...); manager.log_to_file(); manager.log_to_file(level=DEBUG).
\* `absent` is how the run ends when dataset_class is None.
RunEtlConstructStep(absent) ==
    /\ pc = "construct"
    /\ IF dataset_class = NoClass
       THEN /\ Raise(absent)
            /\ UNCHANGED <<manager, io>>
       ELSE LET r == DatasetManagerInit(dataset_class, RunEtlConstructorArgs(args))
            IN  IF r.raised # "none"
                THEN /\ Raise(r.raised)
                     /\ UNCHANGED <<manager, io>>
                ELSE /\ manager' = r.manager
                     /\ io' = io \o <<"log_to_file", "log_to_file">>
                     /\ pc' = "update"
                     /\ UNCHANGED outcome
    /\ UNCHANGED <<regVars, args, etlVars, storeVars, metaVars>>

\* Mutant: run_etl checks for an absent class and returns
RunEtlConstructChecked == RunEtlConstructStep("returned")

\* None(...) is a TypeError: 'NoneType' object is not callable
RunEtlConstruct == RunEtlConstructStep("TypeError")

\* Mutant: update_local_input replaces the store object by a new local one
UpdateLocalInputRebinding(m, ret) ==
    [m EXCEPT !.new_files = IF ret = "true" THEN <<"f">> ELSE <<>>,
              !.store = StoreInterfaceInit("Local")]

\* Mutant: update_local_input appends what it found without resetting first
UpdateLocalInputKeeping(m, ret) ==
    [m EXCEPT !.new_files = IF ret = "true" THEN Append(@, "f") ELSE @]

\* update_local_input: the base method resets new_files, the subclass repopulates
\* it with what it found and returns whether it found anything
UpdateLocalInput(m, ret) ==
    [m EXCEPT !.new_files = IF ret = "true" THEN <<"f">> ELSE <<>>]

\* trigger_parse = only_parse and the if/elif/else around update_local_input:
\* the update is skipped when `skip` holds, and the run returns after it when
\* `stop` holds
RunEtlUpdateStep(skip, stop) ==
    /\ pc = "update"
    /\ IF skip
       THEN /\ trigger_parse' = args.only_parse
            /\ pc' = "metadata"
            /\ UNCHANGED <<manager, update_ret, phase_ret, calls, outcome>>
       ELSE \E ret \in {"true", "false", "raised"} :
            /\ calls' = Append(calls, "update_local_input")
            /\ manager' = UpdateLocalInput(manager, ret)
            /\ update_ret' = ret
            /\ phase_ret' = ret
            /\ IF ret = "raised"
               THEN /\ Raise("PhaseError")
                    /\ trigger_parse' = args.only_parse
               ELSE /\ trigger_parse' = (ret = "true")
                    /\ IF stop
                       THEN outcome' = "returned" /\ pc' = "done"
                       ELSE pc' = "metadata" /\ UNCHANGED outcome
    /\ UNCHANGED <<regVars, args, dataset_class, io, storeVars, metaVars>>

\* Mutant: only_update_input does not end the run
RunEtlUpdateNoReturn ==
    RunEtlUpdateStep(args.only_parse \/ args.only_metadata, FALSE)

\* Mutant: only_parse does not skip the update
RunEtlUpdateDespiteOnlyParse ==
    RunEtlUpdateStep(args.only_metadata, args.only_update_input)

\* Mutant: the update is never skipped
RunEtlUpdateAlways ==
    RunEtlUpdateStep(FALSE, args.only_update_input)

\* Mutant: only_metadata does not skip the update
RunEtlUpdateDespiteOnlyMetadata ==
    RunEtlUpdateStep(args.only_parse, args.only_update_input)

RunEtlUpdate ==
    RunEtlUpdateStep(args.only_parse \/ args.only_metadata, args.only_update_input)

\* if only_metadata: manager.only_update_metadata(); an exception of the
\* method leaves run_etl when `propagates` holds
RunEtlMetadataStep(propagates) ==
    /\ pc = "metadata"
    /\ IF args.only_metadata
       THEN \E ret \in {"ok", "raised"} :
            /\ calls' = Append(calls, "only_update_metadata")
            /\ phase_ret' = ret
            /\ IF ret = "raised" /\ propagates
               THEN Raise("PhaseError")
               ELSE pc' = "prepare" /\ UNCHANGED outcome
       ELSE /\ pc' = "prepare"
            /\ UNCHANGED <<calls, phase_ret, outcome>>
    /\ UNCHANGED <<regVars, args, dataset_class, manager, trigger_parse,
                   update_ret, io, storeVars, metaVars>>

\* Mutant: an exception of only_update_metadata is caught and the run goes on
RunEtlMetadataCaught == RunEtlMetadataStep(FALSE)

\* run_etl has no try: the exception propagates
RunEtlMetadata == RunEtlMetadataStep(TRUE)

\* if only_prepare_input: manager.prepare_input_files(), entered when
\* `requested` holds
RunEtlPrepareStep(requested) ==
    /\ pc = "prepare"
    /\ IF requested
       THEN \E ret \in {"ok", "raised"} :
            /\ calls' = Append(calls, "prepare_input_files")
            /\ phase_ret' = ret
            /\ IF ret = "raised"
               THEN Raise("PhaseError")
               ELSE pc' = "zarr_json" /\ UNCHANGED outcome
       ELSE /\ pc' = "parse"
            /\ UNCHANGED <<calls, phase_ret, outcome>>
    /\ UNCHANGED <<regVars, args, dataset_class, manager, trigger_parse,
                   update_ret, io, storeVars, metaVars>>

\* Mutant: the input is prepared only when a parse is to follow
RunEtlPrepareIfTriggered ==
    RunEtlPrepareStep(args.only_prepare_input /\ trigger_parse)

RunEtlPrepare == RunEtlPrepareStep(args.only_prepare_input)

\* manager.create_zarr_json(), the second statement under only_prepare_input
RunEtlCreateZarrJson ==
    /\ pc = "zarr_json"
    /\ \E ret \in {"ok", "raised"} :
       /\ calls' = Append(calls, "create_zarr_json")
       /\ phase_ret' = ret
       /\ IF ret = "raised"
          THEN Raise("PhaseError")
          ELSE pc' = "parse" /\ UNCHANGED outcome
    /\ UNCHANGED <<regVars, args, dataset_class, manager, trigger_parse,
                   update_ret, io, storeVars, metaVars>>

\* if trigger_parse: manager.parse() ... else: log that nothing is to be done
RunEtlParseStep(trigger) ==
    /\ pc = "parse"
    /\ IF trigger
       THEN \E ret \in {"true", "false", "raised"} :
            /\ calls' = Append(calls, "parse")
            /\ phase_ret' = ret
            /\ IF ret = "raised"
               THEN Raise("PhaseError")
               ELSE outcome' = "returned" /\ pc' = "done"
       ELSE /\ outcome' = "returned"
            /\ pc' = "done"
            /\ UNCHANGED <<calls, phase_ret>>
    /\ UNCHANGED <<regVars, args, dataset_class, manager, trigger_parse,
                   update_ret, io, storeVars, metaVars>>

\* Mutant: the metadata update is made after the parse
RunEtlParseThenMetadata ==
    /\ pc = "parse"
    /\ calls' = calls \o <<"parse", "only_update_metadata">>
    /\ phase_ret' = "ok"
    /\ outcome' = "returned"
    /\ pc' = "done"
    /\ UNCHANGED <<regVars, args, dataset_class, manager, trigger_parse,
                   update_ret, io, storeVars, metaVars>>

\* Mutant: the parse runs whatever the trigger is
RunEtlParseAlways == RunEtlParseStep(TRUE)

RunEtlParse == RunEtlParseStep(trigger_parse)

\* The variables an operation does not use, at rest
EtlIdle ==
    /\ dataset_class = NoClass
    /\ trigger_parse = FALSE
    /\ update_ret = "not_called"
    /\ phase_ret = "none"
    /\ calls = <<>>

StoreIdle ==
    /\ files = {}
    /\ env = {}
    /\ fsMade = 0
    /\ mappersMade = 0
    /\ writes = 0
    /\ result = [op |-> "none"]
    /\ published = NoneV
    /\ hashCalls = 0

MetaIdle ==
    /\ metadata = [kind |-> "absent"]
    /\ static_metadata = {}
    /\ once = [kind |-> "absent"]
    /\ popCalls = 0

Init ==
    /\ registry = DefaultRegistry
    /\ selfCls = 0
    /\ argv = NoArgv
    /\ args \in RunEtlArgs
    /\ pc = "resolve"
    /\ manager = NoManager
    /\ outcome = "running"
    /\ io = <<>>
    /\ EtlIdle
    /\ StoreIdle
    /\ MetaIdle

Next ==
    \/ RunEtlResolve
    \/ RunEtlConstruct
    \/ RunEtlUpdate
    \/ RunEtlMetadata
    \/ RunEtlPrepare
    \/ RunEtlCreateZarrJson
    \/ RunEtlParse

Spec == Init /\ [][Next]_vars

----------------------------------------------------------------------------
(* run_etl_as_script: the command line, argparse and the call of run_etl *)

\* The keys of command_line_args, in the order of the dict: the option strings
\* handed to parser.add_argument
CommandLineArgs ==
    <<<<"s", "o", "u", "r", "c", "e">>,
      <<"s", "t", "o", "r", "e">>,
      <<"-", "-", "s", "3", "-", "b", "u", "c", "k", "e", "t">>,
      <<"-", "-", "r", "e", "b", "u", "i", "l", "d">>,
      <<"-", "-", "d", "a", "t", "e", "-", "r", "a", "n", "g", "e">>,
      <<"-", "-", "l", "a", "t", "i", "t", "u", "d", "e", "-", "r", "a", "n", "g", "e">>,
      <<"-", "-", "l", "o", "n", "g", "i", "t", "u", "d", "e", "-", "r", "a", "n", "g", "e">>,
      <<"-", "-", "o", "n", "l", "y", "-", "p", "a", "r", "s", "e">>,
      <<"-", "-", "o", "n", "l", "y", "-", "m", "e", "t", "a", "d", "a", "t", "a">>,
      <<"-", "-", "o", "n", "l", "y", "-", "u", "p", "d", "a", "t", "e", "-", "i", "n", "p", "u", "t">>,
      <<"-", "-", "o", "n", "l", "y", "-", "p", "r", "e", "p", "a", "r", "e", "-", "i", "n", "p", "u", "t">>,
      <<"-", "-", "l", "o", "c", "a", "l", "-", "o", "u", "t", "p", "u", "t">>,
      <<"-", "-", "c", "u", "s", "t", "o", "m", "-", "o", "u", "t", "p", "u", "t", "-", "p", "a", "t", "h">>,
      <<"-", "-", "c", "u", "s", "t", "o", "m", "-", "h", "e", "a", "d", "-", "m", "e", "t", "a", "d", "a", "t", "a">>,
      <<"-", "-", "c", "u", "s", "t", "o", "m", "-", "l", "a", "t", "e", "s", "t", "-", "h", "a", "s", "h">>,
      <<"-", "-", "e", "r", "a", "5", "-", "e", "n", "a", "b", "l", "e", "-", "c", "a", "c", "h", "i", "n", "g">>,
      <<"-", "-", "e", "r", "a", "5", "-", "s", "k", "i", "p", "-", "f", "i", "n", "a", "l", "i", "z", "a", "t", "i", "o", "n">>>>

\* The options declared with action store_true: False unless given
StoreTrueArgs ==
    {<<"-", "-", "r", "e", "b", "u", "i", "l", "d">>,
     <<"-", "-", "o", "n", "l", "y", "-", "p", "a", "r", "s", "e">>,
     <<"-", "-", "o", "n", "l", "y", "-", "m", "e", "t", "a", "d", "a", "t", "a">>,
     <<"-", "-", "o", "n", "l", "y", "-", "u", "p", "d", "a", "t", "e", "-", "i", "n", "p", "u", "t">>,
     <<"-", "-", "o", "n", "l", "y", "-", "p", "r", "e", "p", "a", "r", "e", "-", "i", "n", "p", "u", "t">>,
     <<"-", "-", "l", "o", "c", "a", "l", "-", "o", "u", "t", "p", "u", "t">>,
     <<"-", "-", "e", "r", "a", "5", "-", "e", "n", "a", "b", "l", "e", "-", "c", "a", "c", "h", "i", "n", "g">>,
     <<"-", "-", "e", "r", "a", "5", "-", "s", "k", "i", "p", "-", "f", "i", "n", "a", "l", "i", "z", "a", "t", "i", "o", "n">>}

RECURSIVE LStripDashes(_)
\* str.lstrip("-")
LStripDashes(s) ==
    IF s # <<>> /\ Head(s) = "-" THEN LStripDashes(Tail(s)) ELSE s

\* The key under which argparse stores an argument's value: a positional
\* argument's name as it is; for an option, the option string without its
\* leading dashes and with every other dash turned into an underscore
ArgparseDest(opt) ==
    IF Head(opt) # "-" THEN opt
    ELSE LET name == LStripDashes(opt)
         IN  [i \in 1..Len(name) |-> IF name[i] = "-" THEN "_" ELSE name[i]]

\* What the command line gives for an option: its value in argv when argv has
\* one, else the default of its action (False for store_true, None otherwise)
GivenValue(cl, opt) ==
    CASE opt = <<"s", "o", "u", "r", "c", "e">> -> cl.source
      [] opt = <<"s", "t", "o", "r", "e">> -> cl.store
      [] opt = <<"-", "-", "s", "3", "-", "b", "u", "c", "k", "e", "t">> -> cl.s3_bucket
      [] opt = <<"-", "-", "r", "e", "b", "u", "i", "l", "d">> -> cl.rebuild
      [] opt = <<"-", "-", "o", "n", "l", "y", "-", "p", "a", "r", "s", "e">> -> cl.only_parse
      [] opt = <<"-", "-", "o", "n", "l", "y", "-", "m", "e", "t", "a", "d", "a", "t", "a">> -> cl.only_metadata
      [] opt = <<"-", "-", "o", "n", "l", "y", "-", "u", "p", "d", "a", "t", "e", "-", "i", "n", "p", "u", "t">>
            -> cl.only_update_input
      [] opt = <<"-", "-", "o", "n", "l", "y", "-", "p", "r", "e", "p", "a", "r", "e", "-", "i", "n", "p", "u", "t">>
            -> cl.only_prepare_input
      [] opt = <<"-", "-", "c", "u", "s", "t", "o", "m", "-", "o", "u", "t", "p", "u", "t", "-", "p", "a", "t", "h">>
            -> cl.custom_output_path
      [] opt = <<"-", "-", "c", "u", "s", "t", "o", "m", "-", "l", "a", "t", "e", "s", "t", "-", "h", "a", "s", "h">>
            -> cl.custom_latest_hash
      [] OTHER -> IF opt \in StoreTrueArgs THEN FALSE ELSE NoneV

\* parse_command_line: vars(parser.parse_args()), the dict from each argument's
\* dest to its value
ParseCommandLine(cl) ==
    LET n == Len(CommandLineArgs)
        dests == {ArgparseDest(CommandLineArgs[i]) : i \in 1..n}
    IN  [d \in dests |->
            GivenValue(cl, CommandLineArgs[
                CHOOSE i \in 1..n : ArgparseDest(CommandLineArgs[i]) = d])]

\* A parameter of run_etl called with **kw: the value of the keyword of its
\* name, else its default; keywords that name no parameter go to **kwargs
Bound(kw, param, default) == IF param \in DOMAIN kw THEN kw[param] ELSE default

\* self.run_etl(dataset_name, **kw): the parameters of run_etl as the call
\* binds them
RunEtlBind(dataset_name, kw) ==
    [dataset_name |-> dataset_name,
     store |-> kw[<<"s", "t", "o", "r", "e">>],
     s3_bucket_name |->
        Bound(kw, <<"s", "3", "_", "b", "u", "c", "k", "e", "t", "_", "n", "a", "m", "e">>, NoneV),
     rebuild |-> Bound(kw, <<"r", "e", "b", "u", "i", "l", "d">>, FALSE),
     only_parse |-> Bound(kw, <<"o", "n", "l", "y", "_", "p", "a", "r", "s", "e">>, FALSE),
     only_update_input |->
        Bound(kw, <<"o", "n", "l", "y", "_", "u", "p", "d", "a", "t", "e", "_", "i", "n", "p", "u", "t">>,
              FALSE),
     only_prepare_input |->
        Bound(kw, <<"o", "n", "l", "y", "_", "p", "r", "e", "p", "a", "r", "e", "_", "i", "n", "p", "u", "t">>,
              FALSE),
     only_metadata |->
        Bound(kw, <<"o", "n", "l", "y", "_", "m", "e", "t", "a", "d", "a", "t", "a">>, FALSE),
     custom_output_path |->
        Bound(kw, <<"c", "u", "s", "t", "o", "m", "_", "o", "u", "t", "p", "u", "t", "_", "p", "a", "t", "h">>,
              NoneV),
     custom_latest_hash |->
        Bound(kw, <<"c", "u", "s", "t", "o", "m", "_", "l", "a", "t", "e", "s", "t", "_", "h", "a", "s", "h">>,
              NoneV)]

\* run_etl_as_script up to its call of run_etl
RunEtlAsScript ==
    /\ pc = "script"
    /\ LET generate_kwargs == ParseCommandLine(argv)
           dataset_name == generate_kwargs[<<"s", "o", "u", "r", "c", "e">>]
           popped == [d \in DOMAIN generate_kwargs \ {<<"s", "o", "u", "r", "c", "e">>}
                        |-> generate_kwargs[d]]
       IN  args' = RunEtlBind(dataset_name, popped)
    /\ pc' = "resolve"
    /\ UNCHANGED <<regVars, manager, outcome, io, etlVars, storeVars, metaVars>>

\* Every value the command line can give
CommandLines ==
    [script : {TRUE},
     source : {ERA, NOPE},
     store : {"local", "ipld", "s3"},
     s3_bucket : {NoneV, <<"b">>},
     rebuild : BOOLEAN,
     only_parse : BOOLEAN,
     only_metadata : BOOLEAN,
     only_update_input : BOOLEAN,
     only_prepare_input : BOOLEAN,
     custom_output_path : OutputPathArgs,
     custom_latest_hash : LatestHashArgs]

\* The command lines the script is started with: --s3-bucket is given with
\* the s3 store only
ScriptArgv == {cl \in CommandLines : cl.store # "s3" => cl.s3_bucket = NoneV}

InitScript ==
    /\ registry = DefaultRegistry
    /\ selfCls = 0
    /\ argv \in ScriptArgv
    /\ args = [op |-> "run_etl_as_script"]
    /\ pc = "script"
    /\ manager = NoManager
    /\ outcome = "running"
    /\ io = <<>>
    /\ EtlIdle
    /\ StoreIdle
    /\ MetaIdle

NextScript ==
    \/ RunEtlAsScript
    \/ RunEtlResolve
    \/ RunEtlConstruct
    \/ RunEtlUpdate
    \/ RunEtlMetadata
    \/ RunEtlPrepare
    \/ RunEtlCreateZarrJson
    \/ RunEtlParse

SpecScript == InitScript /\ [][NextScript]_vars

----------------------------------------------------------------------------
(* get_dataset_manager_from_name called on its own *)

\* the call and its return
ResolveCall ==
    /\ pc = "call"
    /\ dataset_class' = GetDatasetManagerFromName(registry, selfCls, args.dataset_name)
    /\ pc' = "done"
    /\ outcome' = "returned"
    /\ UNCHANGED <<regVars, args, manager, io, trigger_parse, update_ret,
                   phase_ret, calls, storeVars, metaVars>>

InitResolve ==
    /\ registry \in [Classes -> {ClassAttrs[i] : i \in 1..Len(ClassAttrs)}]
    /\ selfCls \in Classes
    /\ argv = NoArgv
    /\ args \in [dataset_name : DatasetNames]
    /\ pc = "call"
    /\ manager = NoManager
    /\ outcome = "running"
    /\ io = <<>>
    /\ EtlIdle
    /\ StoreIdle
    /\ MetaIdle

NextResolve == ResolveCall

SpecResolve == InitResolve /\ [][NextResolve]_vars

----------------------------------------------------------------------------
(* populate_metadata *)

\* A dict is the set of its <<key, value>> items

\* Longest run of populate_metadata calls followed
MaxCalls == 3

MetaKeys == {"title", "provider"}

MetaValues == {"a", "b"}

Dicts(keys) ==
    UNION {{{<<k, f[k]>> : k \in ks} : f \in [ks -> MetaValues]} : ks \in SUBSET keys}

\* DatasetManager.populate_metadata: dict.update merges in place and returns
\* None, and that return value is what the method stores
PopulateMetadata(meta, static) ==
    IF meta.kind = "dict"
    THEN [kind |-> "none"]
    ELSE [kind |-> "dict", d |-> static]

PopulateMetadataCall ==
    /\ pc = "ready"
    /\ popCalls < MaxCalls
    /\ metadata' = PopulateMetadata(metadata, static_metadata)
    /\ popCalls' = popCalls + 1
    /\ once' = IF popCalls = 0 THEN metadata' ELSE once
    /\ UNCHANGED <<regVars, args, pc, manager, outcome, io, etlVars, storeVars,
                   static_metadata>>

\* Code outside populate_metadata assigns the runtime-computed fields
AccumulateMetadata ==
    /\ pc = "ready"
    /\ popCalls = 0
    /\ metadata.kind = "absent"
    /\ \E d \in Dicts({"title", "date"}) : metadata' = [kind |-> "dict", d |-> d]
    /\ UNCHANGED <<regVars, args, pc, manager, outcome, io, etlVars, storeVars,
                   static_metadata, once, popCalls>>

InitMeta ==
    /\ registry = DefaultRegistry
    /\ selfCls = 0
    /\ argv = NoArgv
    /\ args = [op |-> "populate_metadata"]
    /\ pc = "ready"
    /\ manager = NoManager
    /\ outcome = "running"
    /\ io = <<>>
    /\ EtlIdle
    /\ StoreIdle
    /\ metadata = [kind |-> "absent"]
    /\ static_metadata \in Dicts(MetaKeys) \ {{}}
    /\ once = [kind |-> "absent"]
    /\ popCalls = 0

NextMeta ==
    \/ PopulateMetadataCall
    \/ AccumulateMetadata

SpecMeta == InitMeta /\ [][NextMeta]_vars

----------------------------------------------------------------------------
(* A manager constructed directly, and the operations of its store *)

DotZarr == <<".", "z", "a", "r", "r">>

\* Most filesystem handles created in one behaviour
MaxFs == 2

\* Most mapper objects created in one behaviour
MaxMappers == 2

\* Most writes through the mapper in one behaviour
MaxWrites == 1

\* Most network and filesystem calls logged in one behaviour
MaxIo == 2

\* dm.output_path(): custom_output_path when given, else the default directory
DefaultOutputPath == <<"d">>

OutputPath(m) ==
    IF m.custom_output_path # NoneV THEN m.custom_output_path ELSE DefaultOutputPath

\* pathlib's joinpath with a relative part, as the string of the resulting path
JoinPath(base, part) == base \o <<"/">> \o part

\* Mutant: the Zarr is named after the json key, as on S3
LocalPathByKey(reg, m) == JoinPath(OutputPath(m), reg[m.cls].json_key \o DotZarr)

\* Local.path
LocalPath(reg, m) == JoinPath(OutputPath(m), reg[m.cls].name \o DotZarr)

\* Mutant: the Zarr is named after name(), as on the local disk
S3UrlByName(reg, m) ==
    <<"s", "3", ":", "/", "/">> \o m.store.bucket
        \o <<"/", "d", "a", "t", "a", "s", "e", "t", "s", "/">>
        \o reg[m.cls].name \o DotZarr

\* S3.url
S3Url(reg, m) ==
    <<"s", "3", ":", "/", "/">> \o m.store.bucket
        \o <<"/", "d", "a", "t", "a", "s", "e", "t", "s", "/">>
        \o reg[m.cls].json_key \o DotZarr

\* Mutant: S3.fs does not catch the KeyError of a missing credential variable
\* and yields no handle
StoreFsWithoutFallback(st, refresh, environ, n) ==
    IF refresh \/ st.fs = NoAttr
    THEN IF st.type = "S3"
         THEN IF {"AWS_ACCESS_KEY_ID", "AWS_SECRET_ACCESS_KEY"} \subseteq environ
              THEN LET handle == [id |-> n + 1, creds |-> "environ"]
                   IN  [store |-> [st EXCEPT !.fs = handle], fs |-> handle, made |-> 1]
              ELSE [store |-> st, fs |-> NoAttr, made |-> 0]
         ELSE LET handle == [id |-> n + 1, creds |-> "file"]
              IN  [store |-> [st EXCEPT !.fs = handle], fs |-> handle, made |-> 1]
    ELSE [store |-> st, fs |-> st.fs, made |-> 0]

\* Local.fs and S3.fs: [store, fs, made], made the number of handles created.
\* S3.fs reads both credential variables and falls back to S3FileSystem() on
\* the KeyError of a missing one.
StoreFs(st, refresh, environ, n) ==
    IF refresh \/ st.fs = NoAttr
    THEN LET handle ==
                 IF st.type = "S3"
                 THEN [id |-> n + 1,
                       creds |-> IF {"AWS_ACCESS_KEY_ID", "AWS_SECRET_ACCESS_KEY"}
                                        \subseteq environ
                                 THEN "environ" ELSE "default"]
                 ELSE [id |-> n + 1, creds |-> "file"]
         IN  [store |-> [st EXCEPT !.fs = handle], fs |-> handle, made |-> 1]
    ELSE [store |-> st, fs |-> st.fs, made |-> 0]

\* self._mapper = s3fs.S3Map(root=self.url, s3=self.fs()) and
\* self._mapper = self.fs().get_mapper(self.path): the handle of a new mapper
\* comes from self.fs() called without refresh
NewMapper(reg, m, environ, n, k) ==
    LET got == StoreFs(m.store, FALSE, environ, n)
        new == [id |-> k + 1,
                root |-> IF m.store.type = "S3" THEN S3Url(reg, m)
                         ELSE LocalPath(reg, m),
                fs |-> got.fs.id]
    IN  [store |-> [got.store EXCEPT !.mapper = new], mapper |-> new,
         fsMade |-> got.made, mappersMade |-> 1]

\* Mutant: the mapper is built anew on every call
StoreMapperUncached(reg, m, refresh, environ, n, k) ==
    NewMapper(reg, m, environ, n, k)

\* Local.mapper and S3.mapper: [store, mapper, fsMade, mappersMade]
StoreMapper(reg, m, refresh, environ, n, k) ==
    IF refresh \/ m.store.mapper = NoAttr
    THEN NewMapper(reg, m, environ, n, k)
    ELSE [store |-> m.store, mapper |-> m.store.mapper, fsMade |-> 0,
          mappersMade |-> 0]

\* Local.has_existing: self.path.exists()
LocalHasExisting(reg, m, fileset) == LocalPath(reg, m) \in fileset

\* Mutant: has_existing connects anew on every read
S3HasExistingReconnecting(reg, m, fileset, environ, n) ==
    LET got == StoreFs(m.store, TRUE, environ, n)
    IN  [store |-> got.store, val |-> S3Url(reg, m) \in fileset, made |-> got.made]

\* S3.has_existing: self.fs().exists(self.url), [store, val, made]
S3HasExisting(reg, m, fileset, environ, n) ==
    LET got == StoreFs(m.store, FALSE, environ, n)
    IN  [store |-> got.store, val |-> S3Url(reg, m) \in fileset, made |-> got.made]

\* What the published pointer of a dataset may hold
Hashes == {NoneV, <<"Q">>, <<"R">>}

\* dm.latest_hash(): the custom_latest_hash override when it was given, else
\* the hash the published pointer resolves to (None when nothing is published)
LatestHash(m, pub) ==
    IF m.custom_latest_hash # NoneV THEN m.custom_latest_hash ELSE pub

\* Keyword options of mapper() and dataset(); an option left out has its default
DefaultOptions == [refresh |-> FALSE, set_root |-> TRUE]

MapperOptions == [refresh : BOOLEAN, set_root : BOOLEAN]

\* Mutant: the mapper is rooted at the latest hash whatever set_root is
IpldMapperAlwaysRooted(m, set_root, hs, k) ==
    [mapper |-> [id |-> k + 1,
                 root |-> IF Truthy(hs[1]) THEN hs[2] ELSE NoneV,
                 chunker |-> m.requested_ipfs_chunker],
     hashCalls |-> IF Truthy(hs[1]) THEN 2 ELSE 1]

\* Mutant: the root is never set
IpldMapperNeverRooted(m, set_root, hs, k) ==
    [mapper |-> [id |-> k + 1, root |-> NoneV,
                 chunker |-> m.requested_ipfs_chunker],
     hashCalls |-> IF set_root THEN 1 ELSE 0]

\* IPLD.mapper: [mapper, hashCalls]. hs[i] is what the i-th latest_hash() call
\* of the operation returns; the test and set_root each make their own call.
\* Every call builds a new mapper, nothing is cached on the store.
IpldMapper(m, set_root, hs, k) ==
    LET fresh == [id |-> k + 1, root |-> NoneV,
                  chunker |-> m.requested_ipfs_chunker]
    IN  IF set_root
        THEN IF Truthy(hs[1])
             THEN [mapper |-> [fresh EXCEPT !.root = hs[2]], hashCalls |-> 2]
             ELSE [mapper |-> fresh, hashCalls |-> 1]
        ELSE [mapper |-> fresh, hashCalls |-> 0]

\* IPLD.has_existing: bool(self.dm.latest_hash())
IpldHasExisting(hs) == Truthy(hs[1])

\* IPLD.__str__
IpldStr(hs) ==
    IF ~Truthy(hs[1]) THEN <<"/", "i", "p", "f", "s", "/">>
    ELSE <<"/", "i", "p", "f", "s", "/">> \o hs[2]

\* store.mapper(**opt) on the backend the manager is bound to:
\* [store, mapper, fsMade, mappersMade, hashCalls]
Mapper(reg, m, opt, environ, n, k, hs) ==
    IF m.store.type = "IPLD"
    THEN LET got == IpldMapper(m, opt.set_root, hs, k)
         IN  [store |-> m.store, mapper |-> got.mapper, fsMade |-> 0,
              mappersMade |-> 1, hashCalls |-> got.hashCalls]
    ELSE LET got == StoreMapper(reg, m, opt.refresh, environ, n, k)
         IN  [store |-> got.store, mapper |-> got.mapper, fsMade |-> got.fsMade,
              mappersMade |-> got.mappersMade, hashCalls |-> 0]

\* store.has_existing on the backend the manager is bound to:
\* [store, val, fsMade, hashCalls]
HasExisting(reg, m, fileset, environ, n, hs) ==
    IF m.store.type = "IPLD"
    THEN [store |-> m.store, val |-> IpldHasExisting(hs), fsMade |-> 0,
          hashCalls |-> 1]
    ELSE IF m.store.type = "Local"
    THEN [store |-> m.store, val |-> LocalHasExisting(reg, m, fileset),
          fsMade |-> 0, hashCalls |-> 0]
    ELSE LET got == S3HasExisting(reg, m, fileset, environ, n)
         IN  [store |-> got.store, val |-> got.val, fsMade |-> got.made,
              hashCalls |-> 0]

\* The return value None of dataset()
NoDataset == [opened |-> FALSE]

\* The body of StoreInterface.dataset with mapper called as mapper(**passed)
DatasetVia(reg, m, passed, fileset, environ, n, k, hs) ==
    LET ex == HasExisting(reg, m, fileset, environ, n, hs)
    IN  IF ex.val
        THEN LET got == Mapper(reg, [m EXCEPT !.store = ex.store], passed, environ,
                               n + ex.fsMade, k, Tail(hs))
             IN  [store |-> got.store,
                  val |-> [opened |-> TRUE, mapper |-> got.mapper],
                  fsMade |-> ex.fsMade + got.fsMade,
                  mappersMade |-> got.mappersMade,
                  hashCalls |-> ex.hashCalls + got.hashCalls]
        ELSE [store |-> ex.store, val |-> NoDataset, fsMade |-> ex.fsMade,
              mappersMade |-> 0, hashCalls |-> ex.hashCalls]

\* Mutant: dataset opens the store through mapper() without its options
DatasetWithoutOptions(reg, m, opt, fileset, environ, n, k, hs) ==
    DatasetVia(reg, m, DefaultOptions, fileset, environ, n, k, hs)

\* StoreInterface.dataset(**opt): [store, val, fsMade, mappersMade, hashCalls]
Dataset(reg, m, opt, fileset, environ, n, k, hs) ==
    DatasetVia(reg, m, opt, fileset, environ, n, k, hs)

PathStore == manager # NoManager /\ manager.store.type \in {"Local", "S3"}

\* What each latest_hash() call of one operation returns while nothing is
\* published in between
Resolved == [i \in 1..3 |-> LatestHash(manager, published)]

\* manager = cls(store=..., s3_bucket_name=..., ...)
Construct ==
    /\ pc = "new"
    /\ LET r == DatasetManagerInit(args.cls, args)
       IN  IF r.raised # "none"
           THEN Raise(r.raised) /\ UNCHANGED manager
           ELSE manager' = r.manager /\ pc' = "ready" /\ outcome' = "returned"
    /\ UNCHANGED <<regVars, args, io, etlVars, storeVars, metaVars>>

\* manager.store.fs(refresh), with refresh drawn from `refreshes`
StoreFsCallWith(refreshes) ==
    /\ pc = "ready" /\ PathStore
    /\ \E refresh \in refreshes :
       LET got == StoreFs(manager.store, refresh, env, fsMade)
       IN  /\ fsMade + got.made <= MaxFs
           /\ manager' = [manager EXCEPT !.store = got.store]
           /\ fsMade' = fsMade + got.made
           /\ result' = [op |-> "fs", refresh |-> refresh, val |-> got.fs]
    /\ hashCalls' = 0
    /\ UNCHANGED <<regVars, args, pc, outcome, io, etlVars, files, env,
                   mappersMade, writes, published, metaVars>>

StoreFsCall == StoreFsCallWith(BOOLEAN)

\* manager.store.mapper(**opt), with opt drawn from `options`
StoreMapperCallWith(options) ==
    /\ pc = "ready" /\ manager # NoManager
    /\ \E opt \in options :
       LET got == Mapper(registry, manager, opt, env, fsMade, mappersMade, Resolved)
       IN  /\ fsMade + got.fsMade <= MaxFs
           /\ mappersMade + got.mappersMade <= MaxMappers
           /\ manager' = [manager EXCEPT !.store = got.store]
           /\ fsMade' = fsMade + got.fsMade
           /\ mappersMade' = mappersMade + got.mappersMade
           /\ hashCalls' = got.hashCalls
           /\ result' = [op |-> "mapper", options |-> opt, val |-> got.mapper]
    /\ UNCHANGED <<regVars, args, pc, outcome, io, etlVars, files, env, writes,
                   published, metaVars>>

StoreMapperCall == StoreMapperCallWith(MapperOptions)

\* manager.store.has_existing
StoreHasExistingCall ==
    /\ pc = "ready" /\ manager # NoManager
    /\ Len(io) < MaxIo
    /\ LET got == HasExisting(registry, manager, files, env, fsMade, Resolved)
       IN  /\ fsMade + got.fsMade <= MaxFs
           /\ manager' = [manager EXCEPT !.store = got.store]
           /\ fsMade' = fsMade + got.fsMade
           /\ hashCalls' = got.hashCalls
           /\ result' = [op |-> "has_existing", val |-> got.val]
    /\ io' = IF manager.store.type = "IPLD" THEN io ELSE Append(io, "exists")
    /\ UNCHANGED <<regVars, args, pc, outcome, etlVars, files, env, mappersMade,
                   writes, published, metaVars>>

\* manager.store.dataset(**opt), with opt drawn from `options`
StoreDatasetCallWith(options) ==
    /\ pc = "ready" /\ manager # NoManager
    /\ Len(io) < MaxIo
    /\ \E opt \in options :
       LET got == Dataset(registry, manager, opt, files, env, fsMade, mappersMade,
                          Resolved)
       IN  /\ fsMade + got.fsMade <= MaxFs
           /\ mappersMade + got.mappersMade <= MaxMappers
           /\ manager' = [manager EXCEPT !.store = got.store]
           /\ fsMade' = fsMade + got.fsMade
           /\ mappersMade' = mappersMade + got.mappersMade
           /\ hashCalls' = got.hashCalls
           /\ result' = [op |-> "dataset", options |-> opt, val |-> got.val]
    /\ io' = IF manager.store.type = "IPLD" THEN io ELSE Append(io, "exists")
    /\ UNCHANGED <<regVars, args, pc, outcome, etlVars, files, env, writes,
                   published, metaVars>>

StoreDatasetCall == StoreDatasetCallWith(MapperOptions)

\* str(manager.store): the url of an S3 store, the path of a Local one,
\* /ipfs/<hash> of an IPLD one
StoreStrCall ==
    /\ pc = "ready" /\ manager # NoManager
    /\ result' = [op |-> "str",
                  val |-> IF manager.store.type = "S3" THEN S3Url(registry, manager)
                          ELSE IF manager.store.type = "Local"
                          THEN LocalPath(registry, manager)
                          ELSE IpldStr(Resolved)]
    /\ hashCalls' = IF manager.store.type # "IPLD" THEN 0
                    ELSE IF Truthy(Resolved[1]) THEN 2 ELSE 1
    /\ UNCHANGED <<regVars, args, pc, manager, outcome, io, etlVars, files, env,
                   fsMade, mappersMade, writes, published, metaVars>>

\* A Zarr is written through the mapper the store has cached: once the write
\* has completed, the mapper's root exists
WriteZarr ==
    /\ pc = "ready" /\ PathStore
    /\ manager.store.mapper # NoAttr
    /\ writes < MaxWrites
    /\ files' = files \cup {manager.store.mapper.root}
    /\ writes' = writes + 1
    /\ result' = [op |-> "write"]
    /\ hashCalls' = 0
    /\ UNCHANGED <<regVars, args, pc, manager, outcome, io, etlVars, env, fsMade,
                   mappersMade, published, metaVars>>

\* A write to the IPLD store yields a new hash, and publishing records it
\* under the dataset's pointer
PublishHash ==
    /\ pc = "ready" /\ manager # NoManager
    /\ manager.store.type = "IPLD"
    /\ writes < MaxWrites
    /\ \E h \in Hashes \ {NoneV, published} : published' = h
    /\ writes' = writes + 1
    /\ result' = [op |-> "publish"]
    /\ hashCalls' = 0
    /\ UNCHANGED <<regVars, args, pc, manager, outcome, io, etlVars, files, env,
                   fsMade, mappersMade, metaVars>>

ConstructorArgs ==
    [cls : {1, 2},
     store : StoreArgs,
     s3_bucket_name : BucketArgs,
     allow_overwrite : BOOLEAN,
     rebuild_requested : BOOLEAN,
     requested_ipfs_chunker : ChunkerArgs,
     custom_output_path : OutputPathArgs,
     custom_latest_hash : LatestHashArgs]

\* The constructor called with every combination of its arguments
InitConstruct ==
    /\ registry = DefaultRegistry
    /\ selfCls = 0
    /\ argv = NoArgv
    /\ args \in ConstructorArgs
    /\ pc = "new"
    /\ manager = NoManager
    /\ outcome = "running"
    /\ io = <<>>
    /\ EtlIdle
    /\ StoreIdle
    /\ MetaIdle

NextConstruct ==
    \/ Construct
    \/ StoreStrCall

SpecConstruct == InitConstruct /\ [][NextConstruct]_vars

\* What may exist before the manager's Zarr has ever been written: the output
\* directory and the Zarr of another dataset
ForeignFiles == {<<"o">>, JoinPath(<<"o">>, ERA \o DotZarr)}

\* The stores are exercised on managers constructed with a usable store
\* argument and the defaults of the arguments the stores do not read, each in
\* the part of the environment its backend reads: the existing paths for
\* Local, the existing urls and the credential variables for S3, the published
\* pointer for IPLD
StoreSpecArgs ==
    {a \in ConstructorArgs :
        /\ a.store \in {"local", "s3", "ipld"}
        /\ a.s3_bucket_name = <<"b">>
        /\ ~a.allow_overwrite
        /\ ~a.rebuild_requested
        /\ (a.store # "ipld" =>
               a.custom_latest_hash = NoneV /\ a.requested_ipfs_chunker = NoneV)}

InitStore ==
    /\ registry = DefaultRegistry
    /\ selfCls = 0
    /\ argv = NoArgv
    /\ args \in StoreSpecArgs
    /\ pc = "new"
    /\ manager = NoManager
    /\ outcome = "running"
    /\ io = <<>>
    /\ EtlIdle
    /\ files \in IF args.store = "ipld" THEN {{}} ELSE SUBSET ForeignFiles
    /\ env \in IF args.store = "s3"
               THEN SUBSET {"AWS_ACCESS_KEY_ID", "AWS_SECRET_ACCESS_KEY"}
               ELSE {{}}
    /\ fsMade = 0
    /\ mappersMade = 0
    /\ writes = 0
    /\ result = [op |-> "none"]
    /\ published \in IF args.store = "ipld" THEN Hashes ELSE {NoneV}
    /\ hashCalls = 0
    /\ MetaIdle

NextStore ==
    \/ Construct
    \/ StoreFsCall
    \/ StoreMapperCall
    \/ StoreHasExistingCall
    \/ StoreDatasetCall
    \/ StoreStrCall
    \/ WriteZarr
    \/ PublishHash

SpecStore == InitStore /\ [][NextStore]_vars

\* The Local and S3 stores used without any refresh request
NoRefresh == {opt \in MapperOptions : ~opt.refresh}

StoreFsCached == StoreFsCallWith({FALSE})

StoreMapperCached == StoreMapperCallWith(NoRefresh)

StoreDatasetCached == StoreDatasetCallWith(NoRefresh)

InitCached ==
    /\ InitStore
    /\ args.store # "ipld"

NextCached ==
    \/ Construct
    \/ StoreFsCached
    \/ StoreMapperCached
    \/ StoreHasExistingCall
    \/ StoreDatasetCached
    \/ WriteZarr

SpecCached == InitCached /\ [][NextCached]_vars

----------------------------------------------------------------------------
(* One manager over its lifetime: after construction its update step, its
   populate_metadata and the operations of its backend are called in any
   order and any number of times up to the bounds *)

\* Longest run of update_local_input calls followed
MaxUpdates == 2

\* manager.update_local_input(), returning normally
UpdateLocalInputCall ==
    /\ pc = "ready" /\ manager # NoManager
    /\ Len(calls) < MaxUpdates
    /\ \E ret \in {"true", "false"} :
          /\ manager' = UpdateLocalInput(manager, ret)
          /\ update_ret' = ret
          /\ phase_ret' = ret
    /\ calls' = Append(calls, "update_local_input")
    /\ UNCHANGED <<regVars, args, pc, outcome, io, dataset_class, trigger_parse,
                   storeVars, metaVars>>

ManagerSpecArgs ==
    {a \in StoreSpecArgs :
        /\ a.cls = 1
        /\ a.custom_output_path = NoneV
        /\ a.custom_latest_hash = NoneV
        /\ a.requested_ipfs_chunker = NoneV}

InitManager ==
    /\ registry = DefaultRegistry
    /\ selfCls = 0
    /\ argv = NoArgv
    /\ args \in ManagerSpecArgs
    /\ pc = "new"
    /\ manager = NoManager
    /\ outcome = "running"
    /\ io = <<>>
    /\ EtlIdle
    /\ files = {}
    /\ env = {}
    /\ fsMade = 0
    /\ mappersMade = 0
    /\ writes = 0
    /\ result = [op |-> "none"]
    /\ published \in IF args.store = "ipld" THEN {NoneV, <<"Q">>} ELSE {NoneV}
    /\ hashCalls = 0
    /\ metadata = [kind |-> "absent"]
    /\ static_metadata = {<<"title", "a">>}
    /\ once = [kind |-> "absent"]
    /\ popCalls = 0

NextManager ==
    \/ Construct
    \/ UpdateLocalInputCall
    \/ PopulateMetadataCall
    \/ StoreFsCall
    \/ StoreMapperCall
    \/ StoreHasExistingCall
    \/ StoreDatasetCall

SpecManager == InitManager /\ [][NextManager]_vars

----------------------------------------------------------------------------
(* The S3 store in a process whose environment changes between the calls *)

CredentialVariables == {"AWS_ACCESS_KEY_ID", "AWS_SECRET_ACCESS_KEY"}

\* os.environ is changed between two calls of the store: credential variables
\* are set or unset
SetEnviron ==
    /\ pc = "ready" /\ manager # NoManager
    /\ \E e \in (SUBSET CredentialVariables) \ {env} : env' = e
    /\ result' = [op |-> "environ"]
    /\ hashCalls' = 0
    /\ UNCHANGED <<regVars, args, pc, manager, outcome, io, etlVars, files,
                   fsMade, mappersMade, writes, published, metaVars>>

InitEnviron ==
    /\ InitStore
    /\ args.store = "s3"
    /\ files = {}

NextEnviron ==
    \/ Construct
    \/ SetEnviron
    \/ StoreFsCall
    \/ StoreMapperCall
    \/ StoreHasExistingCall

SpecEnviron == InitEnviron /\ [][NextEnviron]_vars

----------------------------------------------------------------------------
(* The IPLD store while another process publishes: the pointer may move
   between two latest_hash() calls of one operation *)

\* The values the pointer holds at the three latest_hash() calls an operation
\* may make, from p on: it stays, or a new hash is published over it
Racing(p) ==
    {ps \in [1..3 -> Hashes] :
        /\ ps[1] = p
        /\ \A i \in 1..2 : ps[i + 1] = ps[i] \/ ps[i + 1] # NoneV}

\* Number of publications in ps
Publications(ps) == Cardinality({i \in 1..2 : ps[i + 1] # ps[i]})

\* What the successive latest_hash() calls return for these pointer values
Readings(m, ps) == [i \in 1..3 |-> LatestHash(m, ps[i])]

\* manager.store.mapper(**opt) on the IPLD store, the pointer moving meanwhile
StoreMapperRacing ==
    /\ pc = "ready" /\ manager # NoManager
    /\ manager.store.type = "IPLD"
    /\ \E opt \in MapperOptions, ps \in Racing(published) :
       LET hs  == Readings(manager, ps)
           got == Mapper(registry, manager, opt, env, fsMade, mappersMade, hs)
           seen == [i \in 1..3 |-> IF i <= got.hashCalls THEN ps[i]
                                   ELSE ps[IF got.hashCalls = 0 THEN 1
                                           ELSE got.hashCalls]]
       IN  /\ mappersMade + got.mappersMade <= MaxMappers
           /\ writes + Publications(seen) <= MaxWrites
           /\ ps = seen
           /\ manager' = [manager EXCEPT !.store = got.store]
           /\ mappersMade' = mappersMade + got.mappersMade
           /\ hashCalls' = got.hashCalls
           /\ writes' = writes + Publications(seen)
           /\ published' = seen[3]
           /\ result' = [op |-> "mapper", options |-> opt, val |-> got.mapper,
                         readings |-> SubSeq(hs, 1, got.hashCalls)]
    /\ UNCHANGED <<regVars, args, pc, outcome, io, etlVars, files, env, fsMade,
                   metaVars>>

\* manager.store.dataset(**opt) on the IPLD store, the pointer moving meanwhile
StoreDatasetRacing ==
    /\ pc = "ready" /\ manager # NoManager
    /\ manager.store.type = "IPLD"
    /\ \E opt \in MapperOptions, ps \in Racing(published) :
       LET hs  == Readings(manager, ps)
           got == Dataset(registry, manager, opt, files, env, fsMade, mappersMade, hs)
           seen == [i \in 1..3 |-> IF i <= got.hashCalls THEN ps[i]
                                   ELSE ps[got.hashCalls]]
       IN  /\ mappersMade + got.mappersMade <= MaxMappers
           /\ writes + Publications(seen) <= MaxWrites
           /\ ps = seen
           /\ manager' = [manager EXCEPT !.store = got.store]
           /\ mappersMade' = mappersMade + got.mappersMade
           /\ hashCalls' = got.hashCalls
           /\ writes' = writes + Publications(seen)
           /\ published' = seen[3]
           /\ result' = [op |-> "dataset", options |-> opt, val |-> got.val,
                         readings |-> SubSeq(hs, 1, got.hashCalls)]
    /\ UNCHANGED <<regVars, args, pc, outcome, io, etlVars, files, env, fsMade,
                   metaVars>>

InitRace ==
    /\ InitStore
    /\ args.store = "ipld"

NextRace ==
    \/ Construct
    \/ StoreMapperRacing
    \/ StoreDatasetRacing

SpecRace == InitRace /\ [][NextRace]_vars

----------------------------------------------------------------------------
(* Properties of run_etl, checked under Spec *)

Count(seq, x) == Cardinality({i \in 1..Len(seq) : seq[i] = x})

Constructed == manager # NoManager

\* run_etl has ended by itself, not by an exception
Returned == pc = "done" /\ outcome = "returned"

\* C1, as stated: for every combination of the other flags, run_etl with
\* only_update_input=True calls update_local_input and then returns without
\* invoking parse, prepare_input_files, create_zarr_json or only_update_metadata.
\* (Stated of the runs in which no lifecycle method raises.)
C1_AsStated ==
    (args.only_update_input /\ Constructed /\ outcome # "PhaseError") =>
        /\ \A i \in 1..Len(calls) : calls[i] = "update_local_input"
        /\ (pc = "done" => calls = <<"update_local_input">>)

\* C1, amended: when neither only_parse nor only_metadata is set, run_etl with
\* only_update_input=True calls update_local_input once and returns right after
\* it, for either return value, without invoking any other lifecycle method.
C1_UpdateOnly ==
    (args.only_update_input /\ ~args.only_parse /\ ~args.only_metadata /\ Constructed) =>
        /\ pc \in {"update", "done"}
        /\ \A i \in 1..Len(calls) : calls[i] = "update_local_input"
        /\ (pc = "done" => calls = <<"update_local_input">>)
        /\ (update_ret \in {"true", "false"} => Returned)

C1_Witness ==
    /\ args.only_update_input /\ ~args.only_parse /\ ~args.only_metadata
    /\ args.only_prepare_input
    /\ update_ret = "true"
    /\ Returned
    /\ calls = <<"update_local_input">>

\* C2: for every combination of the other flags, run_etl with only_parse=True
\* never calls update_local_input, never calls parse twice, and calls parse
\* exactly once in every run that no earlier lifecycle method left by an exception.
C2_OnlyParse ==
    (args.only_parse /\ Constructed) =>
        /\ Count(calls, "update_local_input") = 0
        /\ update_ret = "not_called"
        /\ Count(calls, "parse") <= 1
        /\ (pc = "done" =>
              \/ Count(calls, "parse") = 1 /\ calls[Len(calls)] = "parse"
              \/ /\ outcome = "PhaseError"
                 /\ calls # <<>>
                 /\ calls[Len(calls)] \in {"only_update_metadata",
                                           "prepare_input_files",
                                           "create_zarr_json"})
        /\ (Returned => Count(calls, "parse") = 1)

C2_Witness ==
    /\ args.only_parse /\ args.only_update_input /\ args.only_metadata
    /\ args.only_prepare_input
    /\ Returned
    /\ calls = <<"only_update_metadata", "prepare_input_files", "create_zarr_json",
                 "parse">>

NoOnlyFlag ==
    /\ ~args.only_parse
    /\ ~args.only_update_input
    /\ ~args.only_prepare_input
    /\ ~args.only_metadata

\* C3: when no only_* flag is set and update_local_input returns false,
\* run_etl does not invoke parse (nor anything else) and ends without raising.
C3_NoNewData ==
    (NoOnlyFlag /\ update_ret = "false") =>
        /\ Count(calls, "parse") = 0
        /\ calls = <<"update_local_input">>
        /\ outcome \in {"running", "returned"}
        /\ (pc = "done" => outcome = "returned")
        /\ ~trigger_parse

C3_Witness ==
    /\ NoOnlyFlag
    /\ update_ret = "false"
    /\ Returned
    /\ calls = <<"update_local_input">>

\* C4, as stated: when only_metadata is requested, run_etl skips
\* update_local_input, runs only_update_metadata and stops: nothing is invoked
\* after it, whatever the other flags are.
\* (Stated of the runs in which no lifecycle method raises.)
C4_AsStated ==
    (args.only_metadata /\ Constructed /\ outcome # "PhaseError") =>
        /\ \A i \in 1..Len(calls) : calls[i] = "only_update_metadata"
        /\ (Returned => calls = <<"only_update_metadata">>)

\* What a run with only_metadata invokes when nothing raises
C4_Expected ==
    <<"only_update_metadata">>
        \o (IF args.only_prepare_input
            THEN <<"prepare_input_files", "create_zarr_json">> ELSE <<>>)
        \o (IF args.only_parse THEN <<"parse">> ELSE <<>>)

\* C4, amended: when only_metadata is requested, run_etl skips
\* update_local_input and runs only_update_metadata once, before anything else;
\* it stops there when neither only_prepare_input nor only_parse is set, and
\* otherwise goes on to prepare_input_files and create_zarr_json (when
\* only_prepare_input is set) and to parse (when only_parse is set).
C4_OnlyMetadata ==
    (args.only_metadata /\ Constructed) =>
        /\ Count(calls, "update_local_input") = 0
        /\ Len(calls) <= Len(C4_Expected)
        /\ calls = SubSeq(C4_Expected, 1, Len(calls))
        /\ (Returned => calls = C4_Expected)
        /\ (pc \in {"prepare", "zarr_json", "parse"} => calls # <<>>)

C4_Witness ==
    /\ args.only_metadata /\ ~args.only_prepare_input /\ ~args.only_parse
    /\ args.only_update_input
    /\ Returned
    /\ calls = <<"only_update_metadata">>

----------------------------------------------------------------------------
(* Properties of populate_metadata, checked under SpecMeta *)

\* C5: populate_metadata is idempotent: with static_metadata unchanged, the
\* metadata after any number n >= 1 of successive calls equals the metadata
\* after the first of them (so that it is never None after a call that
\* followed one which left a dict).
C5_Idempotent ==
    popCalls >= 1 => metadata = once

----------------------------------------------------------------------------
(* Properties of construction, checked under SpecConstruct *)

\* The construction has ended by raising ValueError before any I/O
ConfigurationError ==
    /\ outcome = "ValueError"
    /\ manager = NoManager
    /\ io = <<>>
    /\ fsMade = 0
    /\ mappersMade = 0

BoundTo(type) == Constructed /\ manager.store.type = type

\* C6, as stated: constructing a manager with store 'local' (or None), 'ipld'
\* or 's3' binds a backend of the matching type; any other store value fails
\* with ValueError before any network or filesystem call.
C6_AsStated ==
    pc # "new" =>
        /\ (args.store \in {"<None>", "local"} => BoundTo("Local"))
        /\ (args.store = "ipld" => BoundTo("IPLD"))
        /\ (args.store = "s3" => BoundTo("S3"))
        /\ (args.store \notin {"<None>", "local", "ipld", "s3"} => ConfigurationError)

\* C6, amended: constructing a manager with store 'local' (or None), 'ipld',
\* or 's3' together with a non-empty bucket name, binds a backend of the
\* matching type; any other store value, and 's3' with an empty or None bucket
\* name, fails with ValueError before any network or filesystem call.
C6_StoreSelection ==
    pc # "new" =>
        /\ (args.store \in {"<None>", "local"} => BoundTo("Local"))
        /\ (args.store = "ipld" => BoundTo("IPLD"))
        /\ (args.store = "s3" /\ args.s3_bucket_name \notin {NoneV, <<>>}
              => BoundTo("S3"))
        /\ (args.store = "s3" /\ args.s3_bucket_name \in {NoneV, <<>>}
              => ConfigurationError)
        /\ (args.store \notin {"<None>", "local", "ipld", "s3"} => ConfigurationError)
        /\ (Constructed => outcome = "returned" /\ io = <<>>)

C6_Witness ==
    /\ args.store = "s3"
    /\ args.s3_bucket_name = <<"b">>
    /\ pc = "ready"
    /\ BoundTo("S3")

\* C7: overwrite_allowed is true for every manager bound to the IPLD store,
\* whatever allow_overwrite was; for the other stores it is allow_overwrite.
C7_OverwriteAllowed ==
    Constructed =>
        /\ (manager.store.type = "IPLD" => manager.overwrite_allowed)
        /\ (manager.store.type # "IPLD" =>
                manager.overwrite_allowed = args.allow_overwrite)

C7_Witness ==
    /\ BoundTo("IPLD")
    /\ ~args.allow_overwrite
    /\ manager.overwrite_allowed

----------------------------------------------------------------------------
(* Properties of get_dataset_manager_from_name, checked under SpecResolve *)

RECURSIVE Ancestors(_)
Ancestors(c) == IF c = 0 THEN {} ELSE {BaseClass(c)} \cup Ancestors(BaseClass(c))

\* The classes of the subclass tree of the receiver's class
TransitiveSubclasses == {c \in 1..NumClasses : selfCls \in Ancestors(c)}

\* What the claim compares the requested name with
C8_Key(c) ==
    IF Contains(<<"g", "f", "s">>, args.dataset_name)
    THEN registry[c].json_key
    ELSE registry[c].name

\* C8: get_dataset_manager_from_name(name) returns a transitive subclass whose
\* json_key equals name when name contains "gfs", and one whose name() equals
\* name otherwise; when no transitive subclass matches it returns None and
\* raises nothing.
C8_Resolution ==
    pc = "done" =>
        /\ outcome = "returned"
        /\ (dataset_class # NoClass =>
              /\ dataset_class \in TransitiveSubclasses
              /\ C8_Key(dataset_class) = args.dataset_name)
        /\ (dataset_class = NoClass <=>
              \A c \in TransitiveSubclasses : C8_Key(c) # args.dataset_name)

\* a name with "gfs" in it resolved to a class of another name, by its json key
C8_Witness ==
    /\ pc = "done"
    /\ args.dataset_name = XGFS
    /\ dataset_class # NoClass
    /\ registry[dataset_class].name # args.dataset_name
    /\ registry[dataset_class].json_key = args.dataset_name
    /\ BaseClass(dataset_class) # selfCls

----------------------------------------------------------------------------
(* Properties of the Local store, checked under SpecStore *)

----------------------------------------------------------------------------
(* Properties of the IPLD store, checked under SpecStore *)

\* The hash a latest_hash() call resolves to in the current state: the override
\* given at construction, else what is published (NoneV when neither)
C11_Latest ==
    IF args.custom_latest_hash # NoneV THEN args.custom_latest_hash ELSE published

\* C11: on the IPLD store, mapper(set_root=False) makes no latest_hash() call
\* and returns a new mapper without a root, whether or not a latest hash
\* exists; the store caches nothing.
C11_UnrootedMapper ==
    (BoundTo("IPLD") /\ result.op = "mapper" /\ ~result.options.set_root) =>
        /\ hashCalls = 0
        /\ result.val.root = NoneV
        /\ result.val.id = mappersMade
        /\ manager.store.mapper = NoAttr

\* an unrooted mapper obtained while a hash is published
C11_Witness ==
    /\ BoundTo("IPLD")
    /\ result.op = "mapper"
    /\ ~result.options.set_root
    /\ args.custom_latest_hash = NoneV
    /\ published = <<"R">>
    /\ writes = 1
    /\ result.val.root = NoneV

\* C12: on the IPLD store, has_existing is false exactly when no latest hash
\* is resolvable; mapper(set_root=True) returns a mapper rooted at the latest
\* hash when one is resolvable and an unrooted mapper when none is.
C12_RootedMapper ==
    BoundTo("IPLD") =>
        /\ (result.op = "has_existing" => (result.val <=> C11_Latest # NoneV))
        /\ (result.op = "mapper" /\ result.options.set_root =>
               result.val.root = C11_Latest)

C12_Witness ==
    /\ BoundTo("IPLD")
    /\ result.op = "mapper"
    /\ result.options.set_root
    /\ args.custom_latest_hash = NoneV
    /\ published = <<"Q">>
    /\ result.val.root = <<"Q">>
    /\ hashCalls = 2

----------------------------------------------------------------------------
(* Properties of the caches of the Local and S3 stores *)

\* C13, checked under SpecCached (no call carries refresh): once mapper() has
\* been called, every later mapper() call, and every dataset() call that opens
\* the store, gets the mapper the first call made, and no filesystem handle is
\* created after it: the only mapper ever made is the first, on the only
\* handle ever made.
C13_CachedMapper ==
    PathStore =>
        /\ mappersMade <= 1
        /\ fsMade <= 1
        /\ (manager.store.mapper # NoAttr =>
              /\ mappersMade = 1 /\ fsMade = 1
              /\ manager.store.mapper.id = 1
              /\ manager.store.mapper.fs = 1
              /\ manager.store.fs.id = 1)
        /\ (result.op = "mapper" => result.val = manager.store.mapper)
        /\ (result.op = "dataset" /\ result.val.opened =>
              result.val.mapper = manager.store.mapper)

\* a third use of the mapper, through dataset(), after a write
C13_Witness ==
    /\ BoundTo("S3")
    /\ writes = 1
    /\ io = <<"exists", "exists">>
    /\ result.op = "dataset"
    /\ result.val.opened
    /\ result.val.mapper.id = 1
    /\ fsMade = 1

\* C14, as stated, checked under SpecStore: mapper(refresh=True) on the Local
\* and S3 stores returns a new mapper built on a newly created filesystem
\* handle, and afterwards the cached mapper and the cached handle are the new
\* ones.
C14_RefreshReplacesBoth ==
    [][(result'.op = "mapper" /\ result'.options.refresh
            /\ manager'.store.type \in {"Local", "S3"}) =>
          /\ mappersMade' = mappersMade + 1
          /\ fsMade' = fsMade + 1
          /\ result'.val.id = mappersMade'
          /\ result'.val.fs = fsMade'
          /\ manager'.store.mapper = result'.val
          /\ manager'.store.fs.id = fsMade']_vars

----------------------------------------------------------------------------
(* Properties of has_existing and dataset on the three stores, checked under
   SpecStore *)

\* C15, as stated: reading has_existing changes no state of the backend or of
\* the manager, the cached mapper and the cached filesystem handle included,
\* and two consecutive reads return the same answer.
C15_AsStated ==
    [][result'.op = "has_existing" =>
          /\ manager' = manager
          /\ fsMade' = fsMade
          /\ mappersMade' = mappersMade
          /\ files' = files /\ env' = env /\ published' = published
          /\ (result.op = "has_existing" => result'.val = result.val)]_vars

\* C15, amended: reading has_existing changes nothing on the Local and IPLD
\* stores; on the S3 store a read made while no filesystem handle is cached
\* creates and caches one, and nothing else changes. On all three stores the
\* cached mapper, the stored data, the environment and the published pointer
\* are left as they were, and two consecutive reads return the same answer.
C15_HasExistingReadOnly ==
    [][result'.op = "has_existing" =>
          /\ IF manager.store.type = "S3" /\ manager.store.fs = NoAttr
             THEN /\ fsMade' = fsMade + 1
                  /\ manager'.store.fs.id = fsMade'
                  /\ manager' = [manager EXCEPT !.store.fs = manager'.store.fs]
             ELSE /\ fsMade' = fsMade
                  /\ manager' = manager
          /\ manager'.store.mapper = manager.store.mapper
          /\ mappersMade' = mappersMade
          /\ files' = files /\ env' = env /\ published' = published
          /\ (result.op = "has_existing" => result'.val = result.val)]_vars

\* two reads in a row on the S3 store, the first of which connected
C15_Witness ==
    /\ BoundTo("S3")
    /\ io = <<"exists", "exists">>
    /\ result.op = "has_existing"
    /\ fsMade = 1
    /\ manager.store.fs.id = 1
    /\ manager.store.mapper = NoAttr

\* Whether the dataset has data on its store in the current state
C16_Exists ==
    IF manager.store.type = "Local"
    THEN JoinPath(IF args.custom_output_path = NoneV THEN DefaultOutputPath
                  ELSE args.custom_output_path,
                  registry[args.cls].name \o DotZarr) \in files
    ELSE IF manager.store.type = "S3"
    THEN S3Url(registry, manager) \in files
    ELSE C11_Latest # NoneV

\* C16: dataset(options) returns None without raising and without creating a
\* mapper when has_existing is false; otherwise it opens the store through
\* mapper(options): a new mapper when refresh is set (Local, S3), the cached
\* one when there is one and refresh is not set, an unrooted one when set_root
\* is false (IPLD) and one rooted at the latest hash when it is not.
C16_Dataset ==
    [][result'.op = "dataset" =>
          /\ outcome' = outcome
          /\ IF ~C16_Exists
             THEN /\ result'.val = NoDataset
                  /\ mappersMade' = mappersMade
                  /\ manager'.store.mapper = manager.store.mapper
             ELSE /\ result'.val.opened
                  /\ IF manager.store.type = "IPLD"
                     THEN /\ result'.val.mapper.id = mappersMade + 1
                          /\ mappersMade' = mappersMade + 1
                          /\ result'.val.mapper.root =
                                IF result'.options.set_root THEN C11_Latest ELSE NoneV
                     ELSE /\ manager'.store.mapper = result'.val.mapper
                          /\ IF result'.options.refresh \/ manager.store.mapper = NoAttr
                             THEN /\ result'.val.mapper.id = mappersMade + 1
                                  /\ mappersMade' = mappersMade + 1
                             ELSE /\ result'.val.mapper = manager.store.mapper
                                  /\ mappersMade' = mappersMade]_vars

\* a dataset opened with refresh=True on a Local store that had a mapper
C16_Witness ==
    /\ BoundTo("Local")
    /\ writes = 1
    /\ result.op = "dataset"
    /\ result.options.refresh
    /\ result.val.opened
    /\ result.val.mapper.id = 2
    /\ manager.store.mapper.id = 2

----------------------------------------------------------------------------
(* Ordering, errors and forwarding in run_etl, checked under Spec *)

\* calls[i] = a and a later calls[j] = b for some i < j
C17_Before(a, b) ==
    \E i, j \in 1..Len(calls) : i < j /\ calls[i] = a /\ calls[j] = b

\* C17, as stated: in every run and for every flag combination the phases run
\* one after the other, update_local_input has completed or been skipped
\* before parse starts, and parse has completed before only_update_metadata
\* runs. (Stated of the runs in which no lifecycle method raises.)
C17_Ordered ==
    outcome # "PhaseError" =>
        /\ ~C17_Before("parse", "update_local_input")
        /\ (pc = "parse" => update_ret \in {"not_called", "true", "false"})
        /\ ~C17_Before("only_update_metadata", "parse")

\* The order in which run_etl invokes the phases it invokes
C17_Order ==
    <<"update_local_input", "only_update_metadata", "prepare_input_files",
      "create_zarr_json", "parse">>

C17_Rank(p) == CHOOSE i \in 1..Len(C17_Order) : C17_Order[i] = p

\* C17, amended: in every run and for every flag combination the phases run
\* one after the other in the order update_local_input, only_update_metadata,
\* prepare_input_files, create_zarr_json, parse; update_local_input has
\* completed or been skipped before parse starts, and parse, when it runs, is
\* the last phase: only_update_metadata runs before it, never after it.
C17_PhaseOrder ==
    /\ \A i, j \in 1..Len(calls) :
          i < j => C17_Rank(calls[i]) < C17_Rank(calls[j])
    /\ (pc = "parse" => update_ret \in {"not_called", "true", "false"})
    /\ ~C17_Before("parse", "update_local_input")
    /\ ~C17_Before("parse", "only_update_metadata")
    /\ (Count(calls, "parse") = 1 => pc = "done" /\ calls[Len(calls)] = "parse")

\* a run that updated, prepared and parsed
C17_Witness ==
    /\ Returned
    /\ update_ret = "true"
    /\ calls = <<"update_local_input", "prepare_input_files", "create_zarr_json",
                 "parse">>

Phases ==
    {"update_local_input", "only_update_metadata", "prepare_input_files",
     "create_zarr_json", "parse"}

\* C18: when a phase of run_etl raises, the exception leaves run_etl: the run
\* is over, the phase that raised is the last one invoked, and no phase is
\* invoked twice.
C18_ErrorsPropagate ==
    /\ (phase_ret = "raised" =>
          /\ pc = "done"
          /\ outcome = "PhaseError"
          /\ calls # <<>>
          /\ ~ENABLED Next)
    /\ (outcome = "PhaseError" => phase_ret = "raised")
    /\ \A p \in Phases : Count(calls, p) <= 1

\* prepare_input_files raised after an update that found new data
C18_Witness ==
    /\ phase_ret = "raised"
    /\ update_ret = "true"
    /\ trigger_parse
    /\ calls = <<"update_local_input", "prepare_input_files">>
    /\ outcome = "PhaseError"

\* C19: the manager run_etl constructs has rebuild_requested equal to
\* run_etl's rebuild argument, and custom_output_path and custom_latest_hash
\* equal to the arguments of those names.
C19_Forwarded ==
    Constructed =>
        /\ manager.rebuild_requested = args.rebuild
        /\ manager.custom_output_path = args.custom_output_path
        /\ manager.custom_latest_hash = args.custom_latest_hash

----------------------------------------------------------------------------
(* Forwarding of the command line, checked under SpecScript *)

\* C20: run_etl_as_script forwards every value of the command line into the
\* run_etl parameter that consumes it; started with store s3 and a non-empty
\* --s3-bucket B (and a known source), run_etl constructs a manager bound to
\* the S3 store with bucket B.
C20_Forwarded ==
    pc # "script" =>
        /\ args.dataset_name = argv.source
        /\ args.store = argv.store
        /\ args.s3_bucket_name = argv.s3_bucket
        /\ args.rebuild = argv.rebuild
        /\ args.only_parse = argv.only_parse
        /\ args.only_metadata = argv.only_metadata
        /\ args.only_update_input = argv.only_update_input
        /\ args.only_prepare_input = argv.only_prepare_input
        /\ args.custom_output_path = argv.custom_output_path
        /\ args.custom_latest_hash = argv.custom_latest_hash
        /\ ((pc \notin {"resolve", "construct"} /\ argv.store = "s3"
                /\ Truthy(argv.s3_bucket) /\ argv.source = ERA)
               => (BoundTo("S3") /\ manager.store.bucket = argv.s3_bucket))

----------------------------------------------------------------------------
(* only_prepare_input, checked under Spec *)

\* The run was ended by only_update_input before the later steps
C21_EndedByUpdateOnly ==
    args.only_update_input /\ ~args.only_parse /\ ~args.only_metadata

\* C21: with only_prepare_input, a run that only_update_input has not ended
\* runs prepare_input_files and then create_zarr_json, in that order and once
\* each, whether trigger_parse is set or not; neither is ever run twice, and
\* create_zarr_json never without prepare_input_files right before it.
C21_PrepareThenZarrJson ==
    (args.only_prepare_input /\ Constructed) =>
        /\ Count(calls, "prepare_input_files") <= 1
        /\ Count(calls, "create_zarr_json") <= 1
        /\ \A i \in 1..Len(calls) :
              calls[i] = "create_zarr_json" =>
                  i > 1 /\ calls[i - 1] = "prepare_input_files"
        /\ ((pc = "parse" \/ (Returned /\ ~C21_EndedByUpdateOnly)) =>
              /\ Count(calls, "prepare_input_files") = 1
              /\ Count(calls, "create_zarr_json") = 1)
        /\ (C21_EndedByUpdateOnly => Count(calls, "prepare_input_files") = 0)

\* prepared although the update found nothing and no parse follows
C21_Witness ==
    /\ args.only_prepare_input
    /\ update_ret = "false"
    /\ ~trigger_parse
    /\ Returned
    /\ calls = <<"update_local_input", "prepare_input_files", "create_zarr_json">>

\* C22: with only_prepare_input, run_etl runs prepare_input_files and
\* create_zarr_json instead of the parse: parse is never invoked in that run,
\* whatever update_local_input returned. (Stated of the runs in which
\* only_parse does not ask for the parse itself and no lifecycle method raises.)
C22_NoParse ==
    (args.only_prepare_input /\ ~args.only_parse /\ outcome # "PhaseError") =>
        Count(calls, "parse") = 0

----------------------------------------------------------------------------
(* Merge semantics of populate_metadata, checked under SpecMeta *)

\* dict.update of the accumulated items with the static ones: every static
\* key takes its static value, every other accumulated key is kept
C23_Updated(prev, static) ==
    static \cup {kv \in prev : \A st \in static : st[1] # kv[1]}

\* C23: populate_metadata merges static_metadata into the already-accumulated
\* metadata with update semantics: after a call, metadata is a dict that maps
\* every key of static_metadata to its static value and keeps every
\* previously accumulated key that static_metadata does not contain; with no
\* prior metadata the result equals static_metadata.
C23_Merges ==
    [][popCalls' = popCalls + 1 =>
          metadata' = [kind |-> "dict",
                       d |-> IF metadata.kind = "dict"
                             THEN C23_Updated(metadata.d, static_metadata)
                             ELSE static_metadata]]_vars

----------------------------------------------------------------------------
(* The update step and the parse trigger, checked under Spec *)

\* run_etl has gone past its update step
C24_PastUpdate == Constructed /\ pc # "update"

----------------------------------------------------------------------------
(* Properties of a manager over its lifetime, checked under SpecManager *)

\* C25: a manager's bound store is fixed for its lifetime: once the manager is
\* constructed, no step (update_local_input, populate_metadata, fs, mapper with
\* or without refresh, has_existing, dataset) replaces manager.store by another
\* object: the backend keeps its type and its bucket, and a handle or mapper
\* it has cached is never lost, only replaced on a refresh.
C25_StoreFixed ==
    [][Constructed =>
          /\ manager' # NoManager
          /\ manager'.store.type = manager.store.type
          /\ manager'.store.bucket = manager.store.bucket
          /\ (manager.store.fs # NoAttr => manager'.store.fs # NoAttr)
          /\ (manager.store.mapper # NoAttr => manager'.store.mapper # NoAttr)]_vars

C25_Witness ==
    /\ Constructed
    /\ manager.store.type = "S3"
    /\ calls = <<"update_local_input", "update_local_input">>
    /\ popCalls >= 1
    /\ manager.store.mapper # NoAttr
    /\ result.op = "dataset"

\* C26: new_files is empty in every state of a manager in which no update
\* step has run and found new data: it is empty right after construction, and
\* each update_local_input call resets it before repopulating, so that it
\* holds the finds of the latest call only and is empty again after a call
\* that found nothing.
C26_NewFiles ==
    Constructed =>
        /\ (manager.new_files # <<>> => update_ret = "true")
        /\ (update_ret \in {"not_called", "false"} => manager.new_files = <<>>)
        /\ Len(manager.new_files) <= 1

C26_Witness ==
    /\ Constructed
    /\ calls = <<"update_local_input", "update_local_input">>
    /\ update_ret = "false"
    /\ manager.new_files = <<>>

----------------------------------------------------------------------------
(* Credentials of the S3 store, checked under SpecEnviron *)

\* C27: when either or both of AWS_ACCESS_KEY_ID and AWS_SECRET_ACCESS_KEY are
\* missing from the environment, creating the S3 filesystem handle does not
\* fail: fs() ends normally with a handle made with the default credential
\* discovery and caches it (with both variables present the handle is made
\* with them). The environment is consulted again only on an explicit
\* refresh: fs() without refresh on a store that has a handle returns that
\* handle, with the credentials it was made with, and makes none, whatever the
\* environment has become.
C27_CredentialFallback ==
    [][/\ result'.op = "fs" =>
             /\ outcome' = outcome
             /\ result'.val # NoAttr
             /\ manager'.store.fs = result'.val
             /\ (fsMade' = fsMade + 1 =>
                   result'.val.creds = IF CredentialVariables \subseteq env
                                       THEN "environ" ELSE "default")
             /\ (fsMade' = fsMade + 1) = (result'.refresh \/ manager.store.fs = NoAttr)
             /\ (fsMade' = fsMade => result'.val = manager.store.fs)
       /\ (/\ Constructed
           /\ manager.store.fs # NoAttr
           /\ ~(result'.op = "fs" /\ result'.refresh)) =>
             manager'.store.fs = manager.store.fs]_vars

\* A handle made without credentials in the environment is still the one
\* returned after both variables have been set
C27_Witness ==
    /\ result.op = "fs" /\ ~result.refresh
    /\ fsMade = 1
    /\ result.val.creds = "default"
    /\ manager.store.fs = result.val
    /\ env = CredentialVariables

----------------------------------------------------------------------------
(* An unresolved dataset name in run_etl, checked under Spec *)

\* The name given to run_etl resolves to no class
C28_Unresolved ==
    GetDatasetManagerFromName(registry, selfCls, args.dataset_name) = NoClass

\* C28: when run_etl is given a dataset name that resolves to no class, the
\* absent result is not checked by run_etl: the run goes on to the manager
\* construction and ends there in a TypeError, no manager exists, no lifecycle
\* phase (update, metadata, prepare, parse) is invoked and no backend is
\* created.
C28_UnresolvedName ==
    C28_Unresolved =>
        /\ pc \in {"resolve", "construct", "done"}
        /\ (pc = "construct" => dataset_class = NoClass /\ outcome = "running")
        /\ (pc = "done" => outcome = "TypeError")
        /\ manager = NoManager
        /\ calls = <<>>
        /\ io = <<>>
        /\ update_ret = "not_called"
        /\ fsMade = 0 /\ mappersMade = 0

C28_Witness ==
    /\ C28_Unresolved
    /\ args.dataset_name = NOPE
    /\ args.store = "s3" /\ args.only_parse
    /\ pc = "done"
    /\ outcome = "TypeError"
    /\ calls = <<>>

----------------------------------------------------------------------------
(* The IPLD root under concurrent publication, checked under SpecRace *)

\* C29: on the IPLD store the latest hash is resolved separately for the
\* existence check and for the root that is set; when the published pointer
\* may change between these resolutions, a mapper returned by
\* mapper(set_root=True), or used by dataset(), whose existence check found a
\* hash is rooted at a hash that is not absent or empty, and at the very hash
\* the check found.
C29_RootIsCheckedHash ==
    [][(/\ result'.op \in {"mapper", "dataset"}
        /\ result'.options.set_root
        /\ result'.readings # <<>>
        /\ Truthy(result'.readings[1])) =>
          LET made == IF result'.op = "mapper" THEN result'.val
                      ELSE result'.val.mapper
          IN  /\ Truthy(made.root)
              /\ made.root = result'.readings[1]]_vars

====
